---- MODULE Spec2Model ----
(***************************************************************************)
(* Decoder of Monkey Ball stage definition files (src/src/stagedef).       *)
(*                                                                         *)
(* The model is byte accurate: the input is a zero filled byte buffer with *)
(* a finite set of written bytes, the reader is a cursor over it, and each *)
(* read consumes exactly the bytes the Rust code consumes.  32-bit floats  *)
(* are represented by their bit pattern (f32::from_bits is injective), and *)
(* every byte the fixtures write is below 128 so that a 32-bit pattern is  *)
(* a non-negative integer below 2^31.                                      *)
(***************************************************************************)
EXTENDS Integers, Sequences, FiniteSets, TLC

VARIABLES
    game,        \* StageDefReader.game
    order,       \* the ByteOrder type parameter B of read_stagedef
    eofMode,     \* where a Cursor leaves its position after a failed read_exact
    buf,         \* the written bytes of the buffer (all other bytes are 0)
    buflen,      \* the length of the buffer
    fx,          \* the logical values the buffer was built from
    pos,         \* the reader's cursor position
    file_header, \* StageDefReader.file_header
    stagedef,    \* the StageDef under construction
    heap,        \* the records behind the Arc<Mutex<T>> handles
    pc,          \* position in read_stagedef
    result,      \* the value read_stagedef returned
    edited,      \* whether a consumer has mutated a record after decode
    earlier,     \* the results of the decodes made before the current one
    pending_file_to_load,  \* MkbViewerApp.pending_file_to_load
    stagedef_viewers,      \* MkbViewerApp.stagedef_viewers
    state,                 \* MkbViewerApp.state
    app_pc       \* position of the application in poll_pending_file

vars == <<game, order, eofMode, buf, buflen, fx, pos, file_header, stagedef,
          heap, pc, result, edited, earlier, pending_file_to_load,
          stagedef_viewers, state, app_pc>>

\* The state of the callers of read_stagedef, which the reader never touches
callerVars == <<earlier, pending_file_to_load, stagedef_viewers, state, app_pc>>

---------------------------------------------------------------------------
(* Bounds of the model *)

MaxGlobal == 2     \* largest count of a global list
MaxLocal == 2      \* largest count of a collision header's local list
MaxHeaders == 2    \* largest number of collision headers
MaxViewers == 2    \* largest number of stagedef instances the application opens

---------------------------------------------------------------------------
(* On-disk sizes *)

GOAL_SIZE == 20                \* 0x14
BUMPER_SIZE == 32              \* 0x20
JAMABAR_SIZE == 32             \* 0x20
BANANA_SIZE == 16              \* 0x10
CONE_COL_SIZE == 32            \* 0x20
SPHERE_COL_SIZE == 20          \* 0x14
CYL_COL_SIZE == 28             \* 0x1C
FALLOUT_VOLUME_SIZE == 32      \* 0x20
BACKGROUND_MODEL_SIZE == 56    \* 0x38
COLLISION_HEADER_SIZE == 1180  \* 0x49C

\* The object kinds, in the order read_stagedef reads their global lists.
KindOrder ==
    <<"Goal", "Bumper", "Jamabar", "Banana", "ConeCollision", "SphereCollision",
      "CylinderCollision", "FalloutVolume", "BackgroundModel">>

Kinds == {KindOrder[i] : i \in 1..Len(KindOrder)}

\* The kinds a collision header holds a local count+offset pair for, in the
\* order read_collision_header reads them.
LocalKindOrder ==
    <<"Goal", "Bumper", "Jamabar", "Banana", "ConeCollision", "SphereCollision",
      "CylinderCollision", "FalloutVolume">>

LocalKinds == {LocalKindOrder[i] : i \in 1..Len(LocalKindOrder)}

\* T::get_size()
get_size(kind) ==
    CASE kind = "Goal" -> GOAL_SIZE
      [] kind = "Bumper" -> BUMPER_SIZE
      [] kind = "Jamabar" -> JAMABAR_SIZE
      [] kind = "Banana" -> BANANA_SIZE
      [] kind = "ConeCollision" -> CONE_COL_SIZE
      [] kind = "SphereCollision" -> SPHERE_COL_SIZE
      [] kind = "CylinderCollision" -> CYL_COL_SIZE
      [] kind = "FalloutVolume" -> FALLOUT_VOLUME_SIZE
      [] kind = "BackgroundModel" -> BACKGROUND_MODEL_SIZE

---------------------------------------------------------------------------
(* FileOffset *)

Unused == [tag |-> "Unused", count |-> 0, off |-> 0]
OffsetOnly(o) == [tag |-> "OffsetOnly", count |-> 0, off |-> o]
CountOffset(c, o) == [tag |-> "CountOffset", count |-> c, off |-> o]

\* from_relative that drops the relative offset
from_relative_start_only(start, offset) == start

\* from_relative
from_relative(start, offset) == start + offset

---------------------------------------------------------------------------
(* Schema tables *)

\* The list field of the file header and of the collision header that
\* belongs to a kind.
ListField(kind) ==
    CASE kind = "Goal" -> "goal_list_offset"
      [] kind = "Bumper" -> "bumper_list_offset"
      [] kind = "Jamabar" -> "jamabar_list_offset"
      [] kind = "Banana" -> "banana_list_offset"
      [] kind = "ConeCollision" -> "cone_col_list_offset"
      [] kind = "SphereCollision" -> "sphere_col_list_offset"
      [] kind = "CylinderCollision" -> "cyl_col_list_offset"
      [] kind = "FalloutVolume" -> "fallout_vol_list_offset"
      [] kind = "BackgroundModel" -> "bg_model_list_offset"

\* SMB2_FILE_HEADER_FORMAT: field name -> absolute offset of the field
SMB2_FILE_HEADER_FORMAT ==
    [magic_number_1_offset |-> 0,
     magic_number_2_offset |-> 4,
     collision_header_list_offset |-> 8,
     start_position_ptr_offset |-> 16,
     fallout_position_ptr_offset |-> 20,
     goal_list_offset |-> 24,
     bumper_list_offset |-> 32,
     jamabar_list_offset |-> 40,
     banana_list_offset |-> 48,
     cone_col_list_offset |-> 56,
     sphere_col_list_offset |-> 64,
     cyl_col_list_offset |-> 72,
     fallout_vol_list_offset |-> 80,
     bg_model_list_offset |-> 88,
     fg_model_list_offset |-> 96,
     reflective_model_list_offset |-> 112,
     model_instance_list_offset |-> 132,
     model_ptr_a_list_offset |-> 144,
     model_ptr_b_list_offset |-> 152,
     switch_list_offset |-> 168,
     fog_anim_ptr_offset |-> 176,
     wormhole_list_offset |-> 180,
     fog_ptr_offset |-> 188,
     mystery_3_ptr_offset |-> 212]

HeaderFields == DOMAIN SMB2_FILE_HEADER_FORMAT

\* StageDefFileHeaderFormat::default(): every field Unused
DefaultFileHeader == [f \in HeaderFields |-> Unused]

\* StageDefCollisionHeaderFormat::new: the deltas of the fields the reader
\* uses, from the start of a collision header.  The match arm `SMB2 =>` is an
\* identifier pattern, so every game gets this table.
CollisionHeaderDelta ==
    [center_of_rotation_offset |-> 0,
     conveyor_vector_offset |-> 24,
     goal_list_offset |-> 68,
     bumper_list_offset |-> 76,
     jamabar_list_offset |-> 84,
     banana_list_offset |-> 92,
     cone_col_list_offset |-> 100,
     sphere_col_list_offset |-> 108,
     cyl_col_list_offset |-> 116,
     fallout_vol_list_offset |-> 124]

StageDefCollisionHeaderFormat(header_start) ==
    [f \in DOMAIN CollisionHeaderDelta |->
        OffsetOnly(from_relative(header_start, CollisionHeaderDelta[f]))]

---------------------------------------------------------------------------
(* The byte cursor *)

Byte(a) == IF a \in DOMAIN buf THEN buf[a] ELSE 0

\* read_exact of n bytes at p succeeds iff the bytes exist
Fits(p, n) == p + n <= buflen

\* The cursor after a failed read_exact: unchanged, or at the end of the
\* buffer, depending on the standard library the program is built with.
FailPos(p) == IF eofMode = "end" THEN buflen ELSE p

\* read_u8, read_u16::<B>, read_u32::<B> / read_f32::<B> at p
UintAt(p, n) ==
    CASE n = 1 -> Byte(p)
      [] n = 2 -> IF order = "BE" THEN Byte(p) * 256 + Byte(p + 1)
                  ELSE Byte(p + 1) * 256 + Byte(p)
      [] n = 4 -> IF order = "BE"
                  THEN ((Byte(p) * 256 + Byte(p + 1)) * 256 + Byte(p + 2)) * 256
                       + Byte(p + 3)
                  ELSE ((Byte(p + 3) * 256 + Byte(p + 2)) * 256 + Byte(p + 1)) * 256
                       + Byte(p)

Ok(v, p) == [ok |-> TRUE, val |-> v, pos |-> p, err |-> "none"]
Err(e, p) == [ok |-> FALSE, val |-> <<>>, pos |-> p, err |-> e]

\* A run of primitive reads of the widths ws, each propagated with `?`: the
\* values read, or the first failure.
RECURSIVE ReadFields(_, _, _)
ReadFields(p, ws, acc) ==
    IF ws = <<>> THEN Ok(acc, p)
    ELSE IF ~Fits(p, Head(ws)) THEN Err("eof", FailPos(p))
    ELSE ReadFields(p + Head(ws), Tail(ws), Append(acc, UintAt(p, Head(ws))))

\* read_vec3: three f32
read_vec3(p) == ReadFields(p, <<4, 4, 4>>, <<>>)

\* read_offset that takes the address of the field for the stored address
read_offset_direct(p) ==
    LET Then(r) == IF r.ok THEN Ok(OffsetOnly(p), r.pos) ELSE r
    IN Then(ReadFields(p, <<4>>, <<>>))

\* read_offset that takes a stored 0 for an absent field, as
\* read_count_offset does
read_offset_zero_unused(p) ==
    LET Then(r) ==
            IF ~r.ok THEN r
            ELSE IF r.val[1] = 0 THEN Ok(Unused, r.pos)
            ELSE Ok(OffsetOnly(r.val[1]), r.pos)
    IN Then(ReadFields(p, <<4>>, <<>>))

\* read_offset: always OffsetOnly, also for a stored 0
read_offset(p) ==
    LET Then(r) == IF r.ok THEN Ok(OffsetOnly(r.val[1]), r.pos) ELSE r
    IN Then(ReadFields(p, <<4>>, <<>>))

read_count_offset_required(p) ==
    LET Then(r) ==
            IF ~r.ok THEN r
            ELSE IF r.val[1] = 0 \/ r.val[2] = 0
            THEN Err("No object list was read", r.pos)
            ELSE Ok(CountOffset(r.val[1], r.val[2]), r.pos)
    IN Then(ReadFields(p, <<4, 4>>, <<>>))

read_count_offset(p) ==
    LET Then(r) ==
            IF ~r.ok THEN r
            ELSE IF r.val[1] = 0 \/ r.val[2] = 0 THEN Ok(Unused, r.pos)
            ELSE Ok(CountOffset(r.val[1], r.val[2]), r.pos)
    IN Then(ReadFields(p, <<4, 4>>, <<>>))

RECURSIVE ReadName(_, _)
ReadName(p, acc) ==
    IF ~Fits(p, 1) THEN Err("eof", FailPos(p))
    ELSE IF Byte(p) = 0 THEN Ok(Append(acc, 0), p + 1)
    ELSE ReadName(p + 1, Append(acc, Byte(p)))

\* read_model_name_from_offset without the seek back to return_position
read_model_name_no_return(p) ==
    LET Then(o) == IF ~o.ok THEN o ELSE ReadName(o.val[1], <<>>)
    IN Then(ReadFields(p, <<4>>, <<>>))

\* read_model_name_from_offset: the name behind a 32-bit offset; the cursor
\* is restored only on success.
read_model_name_from_offset(p) ==
    LET Name(return_position, n) == IF n.ok THEN Ok(n.val, return_position) ELSE n
        Then(o) == IF ~o.ok THEN o ELSE Name(o.pos, ReadName(o.val[1], <<>>))
    IN Then(ReadFields(p, <<4>>, <<>>))

---------------------------------------------------------------------------
(* Element decoders: StageDefParsable::try_from_reader *)

\* FromPrimitive::from_u8 for GoalType: Some(variant) or None
GoalTypeFromU8(b) ==
    CASE b = 0 -> [some |-> TRUE, val |-> "Blue"]
      [] b = 1 -> [some |-> TRUE, val |-> "Green"]
      [] b = 2 -> [some |-> TRUE, val |-> "Red"]
      [] OTHER -> [some |-> FALSE, val |-> "None"]

\* Goal::try_from_reader with unwrap_or_default() on the goal type
GoalTryFromReaderDefaulting(p) ==
    LET Typed(r) ==
            [r EXCEPT !.val[7] = IF GoalTypeFromU8(@).some
                                 THEN GoalTypeFromU8(@).val ELSE "Blue"]
        Then(r) == IF ~r.ok THEN r ELSE Typed(r)
    IN Then(ReadFields(p, <<4, 4, 4, 2, 2, 2, 1, 1>>, <<>>))

\* Goal: position, rotation, type byte, padding byte.  A type byte above 2
\* fails after the type byte was consumed and before the padding byte is.
GoalTryFromReader(p) ==
    LET Padded(r, pad) ==
            IF pad.ok
            THEN Ok([r.val EXCEPT ![7] = GoalTypeFromU8(@).val], pad.pos)
            ELSE pad
        Then(r) ==
            IF ~r.ok THEN r
            ELSE IF ~GoalTypeFromU8(r.val[7]).some
            THEN Err("Failed to parse goal type", r.pos)
            ELSE Padded(r, ReadFields(r.pos, <<1>>, <<>>))
    IN Then(ReadFields(p, <<4, 4, 4, 2, 2, 2, 1>>, <<>>))

BumperTryFromReader(p) ==
    LET Then(r) ==
            IF r.ok THEN Ok(SubSeq(r.val, 1, 6) \o SubSeq(r.val, 8, 10), r.pos) ELSE r
    IN Then(ReadFields(p, <<4, 4, 4, 2, 2, 2, 1, 4, 4, 4>>, <<>>))

JamabarTryFromReader(p) == BumperTryFromReader(p)

ConeTryFromReader(p) == BumperTryFromReader(p)

\* Banana: position and type.
BananaTryFromReader(p) == ReadFields(p, <<4, 4, 4, 4>>, <<>>)

\* SphereCollisionObject: position, radius, unk0x10
SphereTryFromReader(p) == ReadFields(p, <<4, 4, 4, 4, 4>>, <<>>)

\* CylinderCollision: position, radius, height, rotation, unk0x1a
CylinderTryFromReader(p) == ReadFields(p, <<4, 4, 4, 4, 4, 2, 2, 2, 2>>, <<>>)

\* FalloutVolume: position, size, rotation, unk0x1e
FalloutVolumeTryFromReader(p) ==
    ReadFields(p, <<4, 4, 4, 4, 4, 4, 2, 2, 2, 2>>, <<>>)

\* BackgroundModel: unk_0x0, model name by indirection, unk_0x8, position,
\* rotation, unk_0x1e, scale, three skipped words.  The closing assertion
\* compares the cursor with start_offset + BACKGROUND_MODEL_SIZE.
BackgroundModelTryFromReader(p) ==
    LET start_offset == p
        Rest(u, n, r) ==
            IF ~r.ok THEN r
            ELSE IF r.pos # start_offset + BACKGROUND_MODEL_SIZE
            THEN Err("panic", r.pos)
            ELSE Ok(<<u.val[1], n.val>> \o SubSeq(r.val, 1, 11), r.pos)
        Named(u, n) ==
            IF ~n.ok THEN n
            ELSE Rest(u, n, ReadFields(n.pos,
                              <<4, 4, 4, 4, 2, 2, 2, 2, 4, 4, 4, 4, 4, 4>>, <<>>))
        Then(u) == IF ~u.ok THEN u ELSE Named(u, read_model_name_from_offset(u.pos))
    IN Then(ReadFields(p, <<4>>, <<>>))

try_from_reader(kind, p) ==
    CASE kind = "Goal" -> GoalTryFromReader(p)
      [] kind = "Bumper" -> BumperTryFromReader(p)
      [] kind = "Jamabar" -> JamabarTryFromReader(p)
      [] kind = "Banana" -> BananaTryFromReader(p)
      [] kind = "ConeCollision" -> ConeTryFromReader(p)
      [] kind = "SphereCollision" -> SphereTryFromReader(p)
      [] kind = "CylinderCollision" -> CylinderTryFromReader(p)
      [] kind = "FalloutVolume" -> FalloutVolumeTryFromReader(p)
      [] kind = "BackgroundModel" -> BackgroundModelTryFromReader(p)

---------------------------------------------------------------------------
(* Shared handles.  A handle is a reference into the heap of records plus   *)
(* its own index; the reader state st is the cursor and the heap.           *)

\* Arc::new(Mutex::new(object)): the reference of the record allocated next
NewArc(h) == Len(h) + 1

\* GlobalStagedefObject::new with a one-based index
GlobalStagedefObjectNewOneBased(h, index) == [object |-> NewArc(h), index |-> index + 1]

\* GlobalStagedefObject::new(object, index), given the heap before it
GlobalStagedefObjectNew(h, index) == [object |-> NewArc(h), index |-> index]

\* A clone of the value instead of the handle: a reference to a record no
\* other handle refers to
CloneByValue(g) == [object |-> 0 - g.object, index |-> g.index]

\* GlobalStagedefObject::clone: the same record, a copy of the index
Clone(g) == [object |-> g.object, index |-> g.index]

\* The loop of read_stagedef_list: element i is decoded at the cursor the
\* element before it left; a failed element is logged and skipped.  Every
\* decoder begins with a 32-bit read: once fewer than four bytes are left,
\* this and all later iterations fail and leave the cursor where a failed
\* read leaves it.
RECURSIVE ReadElements(_, _, _, _, _)
ReadElements(kind, i, c, st, vec) ==
    LET Match(read_obj) ==
            IF read_obj.ok
            THEN ReadElements(kind, i + 1, c,
                              [pos |-> read_obj.pos,
                               heap |-> Append(st.heap, read_obj.val)],
                              Append(vec, GlobalStagedefObjectNew(st.heap, i)))
            ELSE ReadElements(kind, i + 1, c, [st EXCEPT !.pos = read_obj.pos], vec)
    IN IF i >= c THEN [vec |-> vec, st |-> st]
       ELSE IF ~Fits(st.pos, 4) THEN [vec |-> vec, st |-> [st EXCEPT !.pos = FailPos(@)]]
       ELSE Match(try_from_reader(kind, st.pos))

\* The first record of the arena that equals the record of handle g
Interned(hp, g) ==
    [g EXCEPT !.object = CHOOSE o \in 1..Len(hp) :
                            /\ hp[o] = hp[g.object]
                            /\ \A o2 \in 1..(o - 1) : hp[o2] # hp[g.object]]

\* read_stagedef_list over an interning arena: a record equal to one that
\* was decoded before is not allocated again
read_stagedef_list_interning(st, offset, kind) ==
    LET Done(r) == [ok |-> TRUE,
                    vec |-> [j \in 1..Len(r.vec) |-> Interned(r.st.heap, r.vec[j])],
                    st |-> r.st, err |-> "none"]
    IN IF offset.tag = "CountOffset"
       THEN Done(ReadElements(kind, 0, offset.count,
                              [st EXCEPT !.pos = offset.off], <<>>))
       ELSE [ok |-> FALSE, vec |-> <<>>, st |-> st, err |-> "No object list was read"]

read_stagedef_list(st, offset, kind) ==
    LET Done(r) == [ok |-> TRUE, vec |-> r.vec, st |-> r.st, err |-> "none"]
    IN IF offset.tag = "CountOffset"
       THEN Done(ReadElements(kind, 0, offset.count,
                              [st EXCEPT !.pos = offset.off], <<>>))
       ELSE [ok |-> FALSE, vec |-> <<>>, st |-> st, err |-> "No object list was read"]

\* u32 * u32 for a below 2^31 and b below 2^11, as two 16-bit halves of the
\* product modulo 2^32, and whether the product exceeds 32 bits
MulCarry(a, b) == (a \div 65536) * b + ((a % 65536) * b) \div 65536

MulU32(a, b) ==
    [overflow |-> MulCarry(a, b) >= 65536,
     hi |-> MulCarry(a, b) % 65536,
     lo |-> ((a % 65536) * b) % 65536]

\* d < w for a u32 d below 2^31 and a u32 w given by its halves
LessU32(d, w) ==
    \/ d \div 65536 < w.hi
    \/ d \div 65536 = w.hi /\ d % 65536 < w.lo

try_get_offset_difference(x, y) ==
    IF y > x THEN [ok |-> FALSE, val |-> 0] ELSE [ok |-> TRUE, val |-> x - y]

Min(a, b) == IF a < b THEN a ELSE b

\* The iterator chain with filter(index > start)
MatchingGlobalObjsStrict(local_count, global_start_index, global_obj_list) ==
    LET filtered == SelectSeq(global_obj_list,
                              LAMBDA g : g.index > global_start_index)
        taken == SubSeq(filtered, 1, Min(local_count, Len(filtered)))
    IN [j \in 1..Len(taken) |-> [taken[j] EXCEPT !.index = j - 1]]

\* The iterator chain of get_global_objs_from_local_list:
\* filter(index >= start).take(local_count).cloned().map(re-index)
MatchingGlobalObjs(local_count, global_start_index, global_obj_list) ==
    LET filtered == SelectSeq(global_obj_list,
                              LAMBDA g : g.index >= global_start_index)
        taken == SubSeq(filtered, 1, Min(local_count, Len(filtered)))
    IN [j \in 1..Len(taken) |-> [Clone(taken[j]) EXCEPT !.index = j - 1]]

\* get_global_objs_from_local_list with the bound test diff <= global_size
get_global_objs_inclusive(local_count, local_offset, global_co, global_obj_list, kind) ==
    IF global_co.tag = "CountOffset"
    THEN LET d == try_get_offset_difference(local_offset, global_co.off) IN
         IF d.ok /\ d.val <= global_co.count * get_size(kind)
         THEN [some |-> TRUE,
               objs |-> LET filtered ==
                                SelectSeq(global_obj_list,
                                          LAMBDA g : g.index >= d.val \div get_size(kind))
                            taken == SubSeq(filtered, 1, Min(local_count, Len(filtered)))
                        IN [j \in 1..Len(taken) |-> [taken[j] EXCEPT !.index = j - 1]]]
         ELSE [some |-> FALSE, objs |-> <<>>]
    ELSE [some |-> FALSE, objs |-> <<>>]

\* get_global_objs_from_local_list refusing a distance that is no multiple
\* of the element size
get_global_objs_aligned_only(local_count, local_offset, global_co, global_obj_list, kind) ==
    IF global_co.tag = "CountOffset"
    THEN LET d == try_get_offset_difference(local_offset, global_co.off) IN
         IF d.ok /\ d.val < global_co.count * get_size(kind)
                 /\ d.val % get_size(kind) = 0
         THEN [some |-> TRUE,
               objs |-> MatchingGlobalObjs(local_count, d.val \div get_size(kind),
                                           global_obj_list)]
         ELSE [some |-> FALSE, objs |-> <<>>]
    ELSE [some |-> FALSE, objs |-> <<>>]

\* get_global_objs_from_local_list: Some(objs) or None
get_global_objs_from_local_list(local_count, local_offset, global_co, global_obj_list, kind) ==
    IF global_co.tag = "CountOffset"
    THEN LET d == try_get_offset_difference(local_offset, global_co.off) IN
         IF d.ok
         THEN LET global_size == MulU32(global_co.count, get_size(kind)) IN
              IF LessU32(d.val, global_size)
              THEN [some |-> TRUE,
                    objs |-> MatchingGlobalObjs(local_count,
                                                d.val \div get_size(kind),
                                                global_obj_list)]
              ELSE [some |-> FALSE, objs |-> <<>>]
         ELSE [some |-> FALSE, objs |-> <<>>]
    ELSE [some |-> FALSE, objs |-> <<>>]

\* read_local_object_list
read_local_object_list(st, offset, global_list_offset, global_list, kind) ==
    LET Resolve(lco, g) ==
            IF g.some
            THEN [ok |-> TRUE, vec |-> g.objs,
                  st |-> [st EXCEPT !.pos = lco.val.off], err |-> "none"]
            ELSE read_stagedef_list(st, lco.val, kind)
        Then(lco) ==
            IF ~lco.ok
            THEN [ok |-> FALSE, vec |-> <<>>, st |-> [st EXCEPT !.pos = lco.pos],
                  err |-> lco.err]
            ELSE IF lco.val.tag # "CountOffset"
            THEN [ok |-> FALSE, vec |-> <<>>, st |-> [st EXCEPT !.pos = lco.pos],
                  err |-> "no local offset"]
            ELSE Resolve(lco, get_global_objs_from_local_list(
                                  lco.val.count, lco.val.off, global_list_offset,
                                  global_list, kind))
    IN IF offset.tag = "Unused"
       THEN [ok |-> FALSE, vec |-> <<>>, st |-> st,
             err |-> "could not seek to given offset"]
       ELSE Then(read_count_offset(offset.off))

---------------------------------------------------------------------------
(* StageDef, CollisionHeader and the steps of read_stagedef *)

\* The object lists of a StageDef or of a CollisionHeader, by kind
NoLists == [k \in Kinds |-> <<>>]

\* CollisionHeader::default()
DefaultCollisionHeader ==
    [center_of_rotation_position |-> <<0, 0, 0>>,
     conveyor_vector |-> <<0, 0, 0>>,
     lists |-> NoLists]

\* StageDef::default()
DefaultStageDef ==
    [magic_number_1 |-> 0,
     magic_number_2 |-> 0,
     start_position |-> <<0, 0, 0>>,
     start_rotation |-> <<0, 0, 0>>,
     fallout_level |-> 0,
     collision_headers |-> <<>>,
     lists |-> NoLists]

\* The reads of read_file_header_offsets after the two magic number offsets,
\* in code order: the field, and whether it is a count+offset pair.  The
\* sphere collision list is not among them.
FileHeaderReads ==
    <<[field |-> "collision_header_list_offset", co |-> TRUE],
      [field |-> "start_position_ptr_offset", co |-> FALSE],
      [field |-> "fallout_position_ptr_offset", co |-> FALSE],
      [field |-> "goal_list_offset", co |-> TRUE],
      [field |-> "bumper_list_offset", co |-> TRUE],
      [field |-> "jamabar_list_offset", co |-> TRUE],
      [field |-> "banana_list_offset", co |-> TRUE],
      [field |-> "cone_col_list_offset", co |-> TRUE],
      [field |-> "cyl_col_list_offset", co |-> TRUE],
      [field |-> "fallout_vol_list_offset", co |-> TRUE],
      [field |-> "bg_model_list_offset", co |-> TRUE],
      [field |-> "fg_model_list_offset", co |-> TRUE],
      [field |-> "reflective_model_list_offset", co |-> TRUE],
      [field |-> "model_instance_list_offset", co |-> TRUE],
      [field |-> "model_ptr_a_list_offset", co |-> TRUE],
      [field |-> "model_ptr_b_list_offset", co |-> TRUE],
      [field |-> "switch_list_offset", co |-> TRUE],
      [field |-> "fog_anim_ptr_offset", co |-> FALSE],
      [field |-> "wormhole_list_offset", co |-> TRUE],
      [field |-> "fog_ptr_offset", co |-> FALSE],
      [field |-> "mystery_3_ptr_offset", co |-> FALSE]>>

RECURSIVE ReadHeaderFields(_, _, _)
ReadHeaderFields(i, current_format, p) ==
    LET Store(field, r) ==
            IF ~r.ok THEN r
            ELSE ReadHeaderFields(i + 1, [current_format EXCEPT ![field] = r.val],
                                  r.pos)
        Read(f, a) == Store(f.field, IF f.co THEN read_count_offset(a) ELSE read_offset(a))
    IN IF i > Len(FileHeaderReads) THEN Ok(current_format, p)
       ELSE Read(FileHeaderReads[i], SMB2_FILE_HEADER_FORMAT[FileHeaderReads[i].field])

read_file_header_offsets(p) ==
    ReadHeaderFields(1,
        [DefaultFileHeader EXCEPT
            !.magic_number_1_offset =
                OffsetOnly(SMB2_FILE_HEADER_FORMAT.magic_number_1_offset),
            !.magic_number_2_offset =
                OffsetOnly(SMB2_FILE_HEADER_FORMAT.magic_number_2_offset)],
        p)

\* The local lists of read_collision_header, kind by kind: a list that is
\* read replaces the default, an error leaves the default.
RECURSIVE ReadLocalLists(_, _, _, _, _)
ReadLocalLists(i, current_format, sd, st, lists) ==
    LET Store(kind, r) ==
            ReadLocalLists(i + 1, current_format, sd, r.st,
                           IF r.ok THEN [lists EXCEPT ![kind] = r.vec] ELSE lists)
        Read(kind) ==
            Store(kind, read_local_object_list(st, current_format[ListField(kind)],
                                               file_header[ListField(kind)],
                                               sd.lists[kind], kind))
    IN IF i > Len(LocalKindOrder) THEN [lists |-> lists, st |-> st]
       ELSE Read(LocalKindOrder[i])

read_collision_header(st, sd, offset) ==
    LET Finish(c, l, bg) ==
            [ok |-> TRUE,
             val |-> [center_of_rotation_position |-> c.val,
                      conveyor_vector |-> <<0, 0, 0>>,
                      lists |-> IF bg.ok
                                THEN [l.lists EXCEPT !["BackgroundModel"] = bg.vec]
                                ELSE l.lists],
             st |-> bg.st, err |-> "none"]
        Background(c, l) ==
            Finish(c, l, read_stagedef_list(l.st, file_header.bg_model_list_offset,
                                            "BackgroundModel"))
        Lists(current_format, c) ==
            IF ~c.ok
            THEN [ok |-> FALSE, val |-> DefaultCollisionHeader,
                  st |-> [st EXCEPT !.pos = c.pos], err |-> c.err]
            ELSE Background(c, ReadLocalLists(1, current_format, sd,
                                              [st EXCEPT !.pos = c.pos], NoLists))
        Center(current_format) ==
            Lists(current_format,
                  read_vec3(current_format.center_of_rotation_offset.off))
    IN Center(StageDefCollisionHeaderFormat(offset))

\* try_seek(offset).is_ok(): Unused cannot be sought, an offset of 0 can
try_seek_is_ok(offset) == offset.tag # "Unused"

\* Magic numbers, start position (read_vec3) and fallout level: each is read
\* where its resolved location points when that location can be sought, and
\* keeps its value otherwise
read_singular_fields(sd) ==
    LET Fail(r) == [ok |-> FALSE, sd |-> sd, pos |-> r.pos, err |-> r.err]
        Field(offset, ws, kept, p) ==
            IF try_seek_is_ok(offset) THEN ReadFields(offset.off, ws, <<>>)
            ELSE Ok(kept, p)
        Fallout(m1, m2, sp, fl) ==
            IF ~fl.ok THEN Fail(fl)
            ELSE [ok |-> TRUE,
                  sd |-> [sd EXCEPT !.magic_number_1 = m1.val[1],
                                    !.magic_number_2 = m2.val[1],
                                    !.start_position = sp.val,
                                    !.fallout_level = fl.val[1]],
                  pos |-> fl.pos, err |-> "none"]
        Start(m1, m2, sp) ==
            IF ~sp.ok THEN Fail(sp)
            ELSE Fallout(m1, m2, sp,
                         Field(file_header.fallout_position_ptr_offset, <<4>>,
                               <<sd.fallout_level>>, sp.pos))
        Magic2(m1, m2) ==
            IF ~m2.ok THEN Fail(m2)
            ELSE Start(m1, m2,
                       Field(file_header.start_position_ptr_offset, <<4, 4, 4>>,
                             sd.start_position, m2.pos))
        Magic1(m1) ==
            IF ~m1.ok THEN Fail(m1)
            ELSE Magic2(m1, Field(file_header.magic_number_2_offset, <<4>>,
                                  <<sd.magic_number_2>>, m1.pos))
    IN Magic1(Field(file_header.magic_number_1_offset, <<4>>,
                    <<sd.magic_number_1>>, pos))

RECURSIVE ReadGlobalListsFrom(_, _, _)
ReadGlobalListsFrom(i, st, lists) ==
    LET Store(kind, r) ==
            ReadGlobalListsFrom(i + 1, r.st,
                                IF r.ok THEN [lists EXCEPT ![kind] = r.vec] ELSE lists)
        Read(kind) == Store(kind, read_stagedef_list(st, file_header[ListField(kind)], kind))
    IN IF i > Len(KindOrder) THEN [lists |-> lists, st |-> st]
       ELSE Read(KindOrder[i])

PushCollisionHeaderIntoRoot(sd, header) ==
    [sd EXCEPT !.collision_headers = Append(@, header), !.lists = header.lists]

\* stagedef.collision_headers.push(header)
PushCollisionHeader(sd, header) ==
    [sd EXCEPT !.collision_headers = Append(@, header)]

---------------------------------------------------------------------------
(* Input buffers, built the way test_smb2_stagedef_header builds its buffer: *)
(* a zero filled buffer with values written at chosen addresses.            *)

START_POS_ADDR == 2204     \* 0x89C
FALLOUT_POS_ADDR == 2224   \* 0x8B0
LIST_BASE == 2228          \* 0x8B4
HEADER_BASE == 7164        \* 0x1BFC

\* Start of the global list of the fixture's kind; one private element lies
\* directly before it and MaxLocal private elements directly after it.
GOff == LIST_BASE + BACKGROUND_MODEL_SIZE

\* Where the model names of the background models are stored
NameArea == GOff + 1024

NameAddr(s) == NameArea + 4 * (s + 1)

\* The model name of the background model in slot s: one to three equal
\* characters, and the value of its unk_0x8 field
NameLen(s) == (s % 3) + 1
NameChar(s) == 66 + s
Unk0x8(s) == 1025 + s

\* Length of an untruncated buffer: it holds every collision header
FullLen == HEADER_BASE + (MaxHeaders + 2) * COLLISION_HEADER_SIZE

W(a, w, v) == [a |-> a, w |-> w, v |-> v]

\* A type byte that is no goal type
BadGoalType(s) == IF s % 2 = 0 THEN 3 ELSE 127

\* The element in slot s of the element area (slot -1 is the private element
\* before the global list, slots 0..gcount-1 are the global list).  Every
\* element carries its slot number in its first field.
ElementWrites(kind, a, s, bad) ==
    CASE kind = "Goal" ->
            {W(a, 4, s + 2), W(a + 8, 4, 1113980928),
             W(a + 18, 1, IF bad THEN BadGoalType(s) ELSE (s + 1) % 3)}
      [] kind = "BackgroundModel" ->
            {W(a, 4, s + 2), W(a + 4, 4, NameAddr(s)), W(a + 8, 4, Unk0x8(s)),
             W(NameAddr(s) + NameLen(s), 1, 0)}
            \cup {W(NameAddr(s) + i, 1, NameChar(s)) : i \in 0..(NameLen(s) - 1)}
      [] OTHER -> {W(a, 4, s + 2)}

\* Address of collision header h (from 0) of a layout
HeaderAddr(l, h) == l.hoff + h * COLLISION_HEADER_SIZE

\* Number of collision headers the layout describes
HeaderCount(l) == IF l.hoff = 0 THEN 0 ELSE l.hcount

WriteSet(l) ==
    {W(0, 4, l.magic1), W(4, 4, 1148846080),
     W(8, 4, l.hcount), W(12, 4, l.hoff),
     W(16, 4, l.start_ptr), W(20, 4, l.fallout_ptr),
     W(SMB2_FILE_HEADER_FORMAT[ListField(l.kind)], 4, l.gcount),
     W(SMB2_FILE_HEADER_FORMAT[ListField(l.kind)] + 4, 4, l.goff),
     W(START_POS_ADDR, 4, 0), W(START_POS_ADDR + 4, 4, 1076887552),
     W(START_POS_ADDR + 8, 4, 1096810496),
     W(START_POS_ADDR + 12, 2, l.rot[1]), W(START_POS_ADDR + 14, 2, l.rot[2]),
     W(START_POS_ADDR + 16, 2, l.rot[3]),
     W(FALLOUT_POS_ADDR, 4, 1092616192)}
    \cup UNION {ElementWrites(l.kind, GOff + s * get_size(l.kind), s, s \in l.bad)
                  : s \in -1..(Min(l.gcount, MaxGlobal) + MaxLocal - 1)}
    \cup UNION {{W(HeaderAddr(l, h), 4, 256 + h),
                 W(HeaderAddr(l, h) + CollisionHeaderDelta.conveyor_vector_offset,
                   4, 512 + h)}
                \cup (IF l.kind \in LocalKinds
                      THEN {W(HeaderAddr(l, h) + CollisionHeaderDelta[ListField(l.kind)],
                              4, l.locals[h + 1].count),
                            W(HeaderAddr(l, h) + CollisionHeaderDelta[ListField(l.kind)] + 4,
                              4, l.locals[h + 1].off)}
                      ELSE {})
                  : h \in 0..(HeaderCount(l) - 1)}

Pow256(k) == CASE k = 0 -> 1 [] k = 1 -> 256 [] k = 2 -> 65536 [] k = 3 -> 16777216

\* Byte x of a write in byte order ord (write_uint::<T>)
ByteOf(w, x, ord) ==
    LET i == x - w.a
        k == IF ord = "BE" THEN w.w - 1 - i ELSE i
    IN (w.v \div Pow256(k)) % 256

\* The non-zero bytes below len of the buffer a layout describes
Build(l, ord, len) ==
    LET ws == WriteSet(l)
        at(x) == CHOOSE w \in ws : x \in w.a..(w.a + w.w - 1)
        dom == {x \in UNION {w.a..(w.a + w.w - 1) : w \in ws} :
                  x < len /\ ByteOf(at(x), x, ord) # 0}
    IN [x \in dom |-> ByteOf(at(x), x, ord)]

\* Local count+offset pairs of the first collision header: absent, before the
\* global list, at its start, at its second element, inside its second
\* element, and directly after it.
LocalOffsets(kind, gcount) ==
    {0, GOff - get_size(kind), GOff, GOff + get_size(kind),
     GOff + get_size(kind) + 1, GOff + gcount * get_size(kind)}

LocalPairs(kind, gcount) ==
    {[count |-> m, off |-> o] : m \in 0..MaxLocal, o \in LocalOffsets(kind, gcount)}

\* Every later collision header repeats the pair of the first one or refers
\* to the first global element.
LocalSeqs(kind, gcount, hc) ==
    IF hc = 0 THEN {<<>>}
    ELSE IF kind \notin LocalKinds THEN {[h \in 1..hc |-> [count |-> 0, off |-> 0]]}
    ELSE {[h \in 1..hc |-> IF h = 1 \/ h \in same THEN l0
                           ELSE [count |-> 1, off |-> GOff]]
            : l0 \in LocalPairs(kind, gcount), same \in SUBSET (2..hc)}

HeaderPairs ==
    {[count |-> c, off |-> HEADER_BASE] : c \in 0..MaxHeaders}
    \cup {[count |-> 1, off |-> 0]}

GlobalPairs == {[count |-> c, off |-> o] : c \in 0..MaxGlobal, o \in {0, GOff}}

BadSets(kind) ==
    IF kind = "Goal" THEN {{}} \cup {{s} : s \in 0..(MaxGlobal - 1)} ELSE {{}}

Layouts ==
    UNION {UNION {UNION {
        {[kind |-> k, gcount |-> g.count, goff |-> g.off,
          hcount |-> hp.count, hoff |-> hp.off, locals |-> ls, bad |-> b,
          rot |-> <<0, 0, 0>>, magic1 |-> 0, start_ptr |-> START_POS_ADDR,
          fallout_ptr |-> FALLOUT_POS_ADDR]
            : ls \in LocalSeqs(k, g.count, IF hp.off = 0 THEN 0 ELSE hp.count),
              b \in BadSets(k)}
        : hp \in HeaderPairs} : g \in GlobalPairs} : k \in Kinds}

\* The layout of the fixture of the tests: one goal, one collision header
\* whose local goal list is the global one.
BaseLayout ==
    [kind |-> "Goal", gcount |-> 1, goff |-> GOff, hcount |-> 1,
     hoff |-> HEADER_BASE, locals |-> <<[count |-> 1, off |-> GOff]>>, bad |-> {},
     rot |-> <<0, 0, 0>>, magic1 |-> 0, start_ptr |-> START_POS_ADDR,
     fallout_ptr |-> FALLOUT_POS_ADDR]

\* Start rotations other than the one of the fixture of the tests
StartRotations == {<<16384, 0, 0>>, <<1, 2, 3>>}

\* Lengths of truncated buffers
TruncLens ==
    {0, 10, 100, 215, 216, START_POS_ADDR + 8, FALLOUT_POS_ADDR + 2, GOff + 10,
     HEADER_BASE + 6, HEADER_BASE + 70}

Fixtures ==
    {[game |-> "SMB2", order |-> o, eofMode |-> "end", len |-> FullLen, layout |-> l]
        : o \in {"BE", "LE"}, l \in Layouts}
    \cup {[game |-> g, order |-> o, eofMode |-> "end", len |-> FullLen,
           layout |-> BaseLayout] : g \in {"SMB1", "SMBDX"}, o \in {"BE", "LE"}}
    \cup {[game |-> "SMB2", order |-> o, eofMode |-> "end", len |-> FullLen,
           layout |-> [BaseLayout EXCEPT !.rot = r]]
            : o \in {"BE", "LE"}, r \in StartRotations}
    \cup {[game |-> "SMB2", order |-> o, eofMode |-> e, len |-> n,
           layout |-> BaseLayout]
            : o \in {"BE", "LE"}, e \in {"stay", "end"}, n \in TruncLens}

\* Counts a file can store for which count x element size needs more than
\* 32 bits for some kinds (0x10000000) or for none (0x01000000)
WideCounts == {268435456, 16777216}

\* Buffers whose global list of K claims a wide count: the list starts two
\* elements before the end of the buffer, and every collision header has
\* the local pair (1, second element)
WideLayouts ==
    {[kind |-> k, gcount |-> c, goff |-> FullLen - 2 * get_size(k),
      hcount |-> hc, hoff |-> HEADER_BASE,
      locals |-> [h \in 1..hc |-> [count |-> 1, off |-> FullLen - get_size(k)]],
      bad |-> {}, rot |-> <<0, 0, 0>>, magic1 |-> 0, start_ptr |-> START_POS_ADDR,
      fallout_ptr |-> FALLOUT_POS_ADDR]
        : k \in LocalKinds, c \in WideCounts, hc \in 1..MaxHeaders}

WideFixtures ==
    {[game |-> "SMB2", order |-> o, eofMode |-> e, len |-> FullLen, layout |-> l]
        : o \in {"BE", "LE"}, e \in {"stay", "end"}, l \in WideLayouts}

\* Bit patterns of the f32 values 1.0 and 2.0, stored as magic number 1
FirstWords == {1065353216, 1073741824}

\* Buffers whose start-position pointer (0x10), fallout pointer (0x14) or
\* both store 0, with a first word other than 0
ZeroPointerLayouts ==
    {l \in {[BaseLayout EXCEPT !.magic1 = m, !.start_ptr = s, !.fallout_ptr = f,
                                !.gcount = g]
               : m \in FirstWords, g \in 1..MaxGlobal,
                 s \in {0, START_POS_ADDR}, f \in {0, FALLOUT_POS_ADDR}}
        : l.start_ptr = 0 \/ l.fallout_ptr = 0}

ZeroPointerFixtures ==
    {[game |-> "SMB2", order |-> o, eofMode |-> "end", len |-> FullLen, layout |-> l]
        : o \in {"BE", "LE"}, l \in ZeroPointerLayouts}

---------------------------------------------------------------------------
(* The state machine: StageDefReader::new, then read_stagedef step by step *)

NoResult == [kind |-> "none", err |-> "none"]

InitFrom(files) ==
    \E f \in files :
        /\ game = f.game
        /\ order = f.order
        /\ eofMode = f.eofMode
        /\ buflen = f.len
        /\ fx = f.layout
        /\ buf = Build(f.layout, f.order, f.len)
        /\ pos = 0
        /\ file_header = DefaultFileHeader
        /\ stagedef = DefaultStageDef
        /\ heap = <<>>
        /\ pc = "start"
        /\ result = NoResult
        /\ edited = FALSE
        /\ earlier = <<>>
        /\ pending_file_to_load = "None"
        /\ stagedef_viewers = <<>>
        /\ state = "NoStagedefLoaded"
        /\ app_pc = "idle"

Init == InitFrom(Fixtures)

\* The match on self.game in read_file_header_offsets
DefaultFormatFor(g) ==
    IF g = "SMB1" THEN "unimplemented" ELSE "SMB2_FILE_HEADER_FORMAT"

\* read_stagedef going on with the default locations when the file header
\* cannot be read
ReadFileHeaderOffsetsLenient ==
    /\ pc = "start"
    /\ game # "SMB1"
    /\ \E r \in {read_file_header_offsets(pos)} :
          /\ file_header' = IF r.ok THEN r.val
                             ELSE [f \in HeaderFields |->
                                     OffsetOnly(SMB2_FILE_HEADER_FORMAT[f])]
          /\ pos' = r.pos
    /\ pc' = "singular"
    /\ UNCHANGED callerVars
    /\ UNCHANGED <<game, order, eofMode, buf, buflen, fx, stagedef, heap, result, edited>>

\* self.file_header = self.read_file_header_offsets::<B>()?
ReadFileHeaderOffsets ==
    /\ pc = "start"
    /\ IF DefaultFormatFor(game) = "unimplemented"
       THEN /\ result' = [kind |-> "Panic", err |-> "not implemented"]
            /\ pc' = "done"
            /\ UNCHANGED <<pos, file_header>>
       ELSE \E r \in {read_file_header_offsets(pos)} :
            IF r.ok
            THEN /\ file_header' = r.val
                 /\ pos' = r.pos
                 /\ pc' = "singular"
                 /\ UNCHANGED result
            ELSE /\ pos' = r.pos
                 /\ pc' = "done"
                 /\ result' = [kind |-> "Err", err |-> r.err]
                 /\ UNCHANGED file_header
    /\ UNCHANGED callerVars
    /\ UNCHANGED <<game, order, eofMode, buf, buflen, fx, stagedef, heap, edited>>

\* Magic numbers, start position and fallout level
ReadSingularFields ==
    /\ pc = "singular"
    /\ \E r \in {read_singular_fields(stagedef)} :
        /\ pos' = r.pos
        /\ stagedef' = r.sd
        /\ IF r.ok
           THEN pc' = "globals" /\ UNCHANGED result
           ELSE pc' = "done" /\ result' = [kind |-> "Err", err |-> r.err]
    /\ UNCHANGED callerVars
    /\ UNCHANGED <<game, order, eofMode, buf, buflen, fx, file_header, heap, edited>>

\* The nine global object lists
ReadGlobalLists ==
    /\ pc = "globals"
    /\ \E r \in {ReadGlobalListsFrom(1, [pos |-> pos, heap |-> heap], stagedef.lists)} :
        /\ pos' = r.st.pos
        /\ heap' = r.st.heap
        /\ stagedef' = [stagedef EXCEPT !.lists = r.lists]
    /\ pc' = "headers"
    /\ UNCHANGED callerVars
    /\ UNCHANGED <<game, order, eofMode, buf, buflen, fx, file_header, result, edited>>

\* The local list of a kind reaches global_count * T::get_size() with a
\* product that exceeds 32 bits
ReachesOverflow(lco, global_co, kind) ==
    /\ lco.ok
    /\ lco.val.tag = "CountOffset"
    /\ global_co.tag = "CountOffset"
    /\ try_get_offset_difference(lco.val.off, global_co.off).ok
    /\ MulU32(global_co.count, get_size(kind)).overflow

\* Some local list of the header at current_offset does
AliasBoundOverflows(current_offset) ==
    /\ read_vec3(current_offset).ok
    /\ \E k \in LocalKinds :
          ReachesOverflow(read_count_offset(current_offset
                                              + CollisionHeaderDelta[ListField(k)]),
                          file_header[ListField(k)], k)

\* What an overflowing u32 multiplication does: it panics in a build with
\* overflow checks (the dev profile) and wraps in one without (release)
OverflowOutcomes(current_offset) ==
    IF AliasBoundOverflows(current_offset) THEN {"panic", "wrap"} ELSE {"wrap"}

\* One iteration of the loop over the collision headers
ReadCollisionHeader ==
    /\ pc = "headers"
    /\ file_header.collision_header_list_offset.tag = "CountOffset"
    /\ Len(stagedef.collision_headers) < file_header.collision_header_list_offset.count
    /\ \E current_offset \in {from_relative(file_header.collision_header_list_offset.off,
                                           COLLISION_HEADER_SIZE
                                              * Len(stagedef.collision_headers))} :
       \E outcome \in OverflowOutcomes(current_offset) :
       \E r \in {read_collision_header([pos |-> current_offset, heap |-> heap],
                                       stagedef, current_offset)} :
          IF outcome = "panic"
          THEN /\ pc' = "done"
               /\ result' = [kind |-> "Panic", err |-> "attempt to multiply with overflow"]
               /\ UNCHANGED <<pos, heap, stagedef>>
          ELSE /\ pos' = r.st.pos
               /\ heap' = r.st.heap
               /\ IF r.ok
                  THEN /\ stagedef' = PushCollisionHeader(stagedef, r.val)
                       /\ UNCHANGED <<pc, result>>
                  ELSE /\ pc' = "done"
                       /\ result' = [kind |-> "Err", err |-> r.err]
                       /\ UNCHANGED stagedef
    /\ UNCHANGED callerVars
    /\ UNCHANGED <<game, order, eofMode, buf, buflen, fx, file_header, edited>>

\* Ok(stagedef)
ReturnStageDef ==
    /\ pc = "headers"
    /\ \/ file_header.collision_header_list_offset.tag # "CountOffset"
       \/ Len(stagedef.collision_headers) >= file_header.collision_header_list_offset.count
    /\ pc' = "done"
    /\ result' = [kind |-> "Ok", err |-> "none"]
    /\ UNCHANGED callerVars
    /\ UNCHANGED <<game, order, eofMode, buf, buflen, fx, pos, file_header, stagedef,
                   heap, edited>>

RECURSIVE Flatten(_)
Flatten(ss) == IF ss = <<>> THEN <<>> ELSE Head(ss) \o Flatten(Tail(ss))

Range(s) == {s[i] : i \in 1..Len(s)}

\* Every handle a StageDef holds, in its own lists and in its headers' lists
GlobalHandles(sd) == UNION {Range(sd.lists[k]) : k \in Kinds}

HeaderHandles(sd) ==
    UNION {UNION {Range(sd.collision_headers[h].lists[k]) : k \in Kinds}
             : h \in 1..Len(sd.collision_headers)}

\* The value a consumer writes into a record it edits
EditedValue(v) == [v EXCEPT ![1] = -1]

\* A write that lands in a copy of the locked record
MutateCopy(h, g) == h

\* object.lock().unwrap() followed by a write, through some handle
MutateThrough(h, g) == [h EXCEPT ![g.object] = EditedValue(@)]

\* A consumer edits one record of the decoded StageDef
Mutate ==
    /\ pc = "done"
    /\ result.kind = "Ok"
    /\ ~edited
    /\ \E g \in GlobalHandles(stagedef) \cup HeaderHandles(stagedef) :
          heap' = MutateThrough(heap, g)
    /\ edited' = TRUE
    /\ UNCHANGED callerVars
    /\ UNCHANGED <<game, order, eofMode, buf, buflen, fx, pos, file_header, stagedef,
                   pc, result>>

Next ==
    \/ ReadFileHeaderOffsets
    \/ ReadSingularFields
    \/ ReadGlobalLists
    \/ ReadCollisionHeader
    \/ ReturnStageDef
    \/ Mutate

Spec == Init /\ [][Next]_vars

\* read_stagedef over buffers with a singular pointer of 0
InitZeroPointer == InitFrom(ZeroPointerFixtures)

SpecZeroPointer == InitZeroPointer /\ [][Next]_vars

\* read_stagedef over buffers with wide counts
InitWide == InitFrom(WideFixtures)

SpecWide == InitWide /\ [][Next]_vars

---------------------------------------------------------------------------
(* The application (src/src/app.rs): the user opens the file of the buffer  *)
(* through the file dialog, poll_pending_file hands it to                   *)
(* StageDefInstance::new, which decodes it as a big-endian SMB2 stagedef.   *)

\* MkbViewerApp::get_non_loading_state
get_non_loading_state(viewers) ==
    IF Len(viewers) > 0 THEN "StagedefLoaded" ELSE "NoStagedefLoaded"

\* The application opens big-endian SMB2 files
InitApp == Init /\ game = "SMB2" /\ order = "BE"

\* File -> Open: a promise of a file replaces the pending one
open_file_dialog ==
    /\ app_pc = "idle"
    /\ Len(stagedef_viewers) < MaxViewers
    /\ pending_file_to_load' = "Pending"
    /\ UNCHANGED <<game, order, eofMode, buf, buflen, fx, pos, file_header, stagedef,
                   heap, pc, result, edited, earlier, stagedef_viewers, state, app_pc>>

\* The thread of the file dialog: the user picks the file or cancels
get_promise_from_file_dialog ==
    /\ pending_file_to_load = "Pending"
    /\ \E file_dialog \in {"Ready(Some)", "Ready(None)"} :
          pending_file_to_load' = file_dialog
    /\ UNCHANGED <<game, order, eofMode, buf, buflen, fx, pos, file_header, stagedef,
                   heap, pc, result, edited, earlier, stagedef_viewers, state, app_pc>>

\* poll_pending_file, run every frame, up to its call of
\* StageDefInstance::new, which constructs a StageDefReader over the file
poll_pending_file ==
    /\ app_pc = "idle"
    /\ pending_file_to_load # "None"
    /\ IF pending_file_to_load = "Pending"
       THEN /\ state' = "Loading"
            /\ UNCHANGED <<pending_file_to_load, app_pc, pos, file_header, stagedef,
                           pc, result>>
       ELSE IF pending_file_to_load = "Ready(None)"
       THEN /\ state' = get_non_loading_state(stagedef_viewers)
            /\ pending_file_to_load' = "None"
            /\ UNCHANGED <<app_pc, pos, file_header, stagedef, pc, result>>
       ELSE /\ state' = "Loading"
            /\ pending_file_to_load' = "None"
            /\ app_pc' = "StageDefInstance::new"
            /\ pos' = 0
            /\ file_header' = DefaultFileHeader
            /\ stagedef' = DefaultStageDef
            /\ pc' = "start"
            /\ result' = NoResult
    /\ UNCHANGED <<game, order, eofMode, buf, buflen, fx, heap, edited, earlier,
                   stagedef_viewers>>

\* read_stagedef::<BigEndian>() inside StageDefInstance::new
StageDefInstanceNew ==
    /\ app_pc = "StageDefInstance::new"
    /\ \/ ReadFileHeaderOffsets
       \/ ReadSingularFields
       \/ ReadGlobalLists
       \/ ReadCollisionHeader
       \/ ReturnStageDef

\* The rest of poll_pending_file: StageDefInstance::new(filehandle).unwrap()
\* panics on an error; otherwise the instance is pushed and the state left
unwrap_and_push ==
    /\ app_pc = "StageDefInstance::new"
    /\ pc = "done"
    /\ IF result.kind = "Ok"
       THEN /\ stagedef_viewers' =
                  Append(stagedef_viewers,
                         [stagedef |-> stagedef, game |-> "SMB2",
                          endianness |-> "BigEndian", is_active |-> TRUE])
            /\ state' = get_non_loading_state(stagedef_viewers')
            /\ pending_file_to_load' = "None"
            /\ app_pc' = "idle"
       ELSE /\ app_pc' = "panicked"
            /\ UNCHANGED <<stagedef_viewers, state, pending_file_to_load>>
    /\ UNCHANGED <<game, order, eofMode, buf, buflen, fx, pos, file_header, stagedef,
                   heap, pc, result, edited, earlier>>

NextApp ==
    \/ open_file_dialog
    \/ get_promise_from_file_dialog
    \/ poll_pending_file
    \/ StageDefInstanceNew
    \/ unwrap_and_push

SpecApp == InitApp /\ [][NextApp]_vars

---------------------------------------------------------------------------
(* Whole frames of the application: MkbViewerApp::update polls the pending  *)
(* file, draws the menu and the central widget, drops the instances whose   *)
(* window was closed, and shows the windows of the others.                  *)

\* self.stagedef_viewers.retain(|v| v.is_active)
Retain(viewers) == SelectSeq(viewers, LAMBDA v : v.is_active)

\* The instance StageDefInstance::new returns for the decoded stagedef
NewInstance(sd) ==
    [stagedef |-> sd, game |-> "SMB2", endianness |-> "BigEndian", is_active |-> TRUE]

\* The decodes the application has begun
Decodes == Len(earlier) + (IF pc = "done" THEN 1 ELSE 0)

\* The close button of the window of viewer i: egui clears is_active
close_window ==
    /\ app_pc = "idle"
    /\ \E i \in 1..Len(stagedef_viewers) :
          /\ stagedef_viewers[i].is_active
          /\ stagedef_viewers' = [stagedef_viewers EXCEPT ![i].is_active = FALSE]
    /\ UNCHANGED <<game, order, eofMode, buf, buflen, fx, pos, file_header, stagedef,
                   heap, pc, result, edited, earlier, pending_file_to_load, state,
                   app_pc>>

\* One frame: poll_pending_file, then retain.  When a file was picked the
\* frame goes on in StageDefInstance::new, over a new StageDefReader.
update ==
    /\ app_pc = "idle"
    /\ IF pending_file_to_load = "None"
       THEN /\ stagedef_viewers' = Retain(stagedef_viewers)
            /\ UNCHANGED <<state, pending_file_to_load, app_pc, pos, file_header,
                           stagedef, pc, result, earlier>>
       ELSE IF pending_file_to_load = "Pending"
       THEN /\ state' = "Loading"
            /\ stagedef_viewers' = Retain(stagedef_viewers)
            /\ UNCHANGED <<pending_file_to_load, app_pc, pos, file_header, stagedef,
                           pc, result, earlier>>
       ELSE IF pending_file_to_load = "Ready(None)"
       THEN /\ state' = get_non_loading_state(stagedef_viewers)
            /\ pending_file_to_load' = "None"
            /\ stagedef_viewers' = Retain(stagedef_viewers)
            /\ UNCHANGED <<app_pc, pos, file_header, stagedef, pc, result, earlier>>
       ELSE /\ state' = "Loading"
            /\ pending_file_to_load' = "None"
            /\ app_pc' = "StageDefInstance::new"
            /\ earlier' = IF pc = "done"
                          THEN Append(earlier, [order |-> order, result |-> result,
                                                stagedef |-> stagedef])
                          ELSE earlier
            /\ pos' = 0
            /\ file_header' = DefaultFileHeader
            /\ stagedef' = DefaultStageDef
            /\ pc' = "start"
            /\ result' = NoResult
            /\ UNCHANGED stagedef_viewers
    /\ UNCHANGED <<game, order, eofMode, buf, buflen, fx, heap, edited>>

\* The rest of the frame after StageDefInstance::new has returned: unwrap()
\* panics on an error; otherwise push, the non-loading state, and retain
update_after_new ==
    /\ app_pc = "StageDefInstance::new"
    /\ pc = "done"
    /\ IF result.kind = "Ok"
       THEN /\ stagedef_viewers' =
                  Retain(Append(stagedef_viewers, NewInstance(stagedef)))
            /\ state' = get_non_loading_state(Append(stagedef_viewers,
                                                     NewInstance(stagedef)))
            /\ pending_file_to_load' = "None"
            /\ app_pc' = "idle"
       ELSE /\ app_pc' = "panicked"
            /\ UNCHANGED <<stagedef_viewers, state, pending_file_to_load>>
    /\ UNCHANGED <<game, order, eofMode, buf, buflen, fx, pos, file_header, stagedef,
                   heap, pc, result, edited, earlier>>

\* File -> Open, at most MaxViewers times with a file picked
click_open == Decodes < MaxViewers /\ open_file_dialog

NextUpdate ==
    \/ click_open
    \/ get_promise_from_file_dialog
    \/ update
    \/ StageDefInstanceNew
    \/ update_after_new
    \/ close_window

SpecUpdate == InitApp /\ [][NextUpdate]_vars

---------------------------------------------------------------------------
(* Two decodes: after read_stagedef has returned, a second StageDefReader   *)
(* is constructed over an encoding of the same logical values, in the same  *)
(* or in the other byte order, and read_stagedef runs again.  The records   *)
(* of the first result stay allocated.                                      *)

\* The buffers that are decoded twice: at most one collision header
InitTwice == Init /\ eofMode = "end" /\ fx.hcount <= 1

\* A second reader that allocates its records where the first one did
DecodeAgainSameArena ==
    /\ pc = "done"
    /\ earlier = <<>>
    /\ ~edited
    /\ earlier' = <<[order |-> order, result |-> result, stagedef |-> stagedef]>>
    /\ \E o \in {"BE", "LE"} :
          /\ order' = o
          /\ buf' = Build(fx, o, buflen)
    /\ pos' = 0
    /\ file_header' = DefaultFileHeader
    /\ stagedef' = DefaultStageDef
    /\ heap' = <<>>
    /\ pc' = "start"
    /\ result' = NoResult
    /\ UNCHANGED <<game, eofMode, buflen, fx, edited, pending_file_to_load,
                   stagedef_viewers, state, app_pc>>

\* StageDefReader::new(reader, game) over the second buffer; the caller
\* keeps the first result
DecodeAgain ==
    /\ pc = "done"
    /\ earlier = <<>>
    /\ ~edited
    /\ earlier' = <<[order |-> order, result |-> result, stagedef |-> stagedef]>>
    /\ \E o \in {"BE", "LE"} :
          /\ order' = o
          /\ buf' = Build(fx, o, buflen)
    /\ pos' = 0
    /\ file_header' = DefaultFileHeader
    /\ stagedef' = DefaultStageDef
    /\ pc' = "start"
    /\ result' = NoResult
    /\ UNCHANGED <<game, eofMode, buflen, fx, heap, edited, pending_file_to_load,
                   stagedef_viewers, state, app_pc>>

NextTwice ==
    \/ ReadFileHeaderOffsets
    \/ ReadSingularFields
    \/ ReadGlobalLists
    \/ ReadCollisionHeader
    \/ ReturnStageDef
    \/ DecodeAgain
    \/ Mutate

SpecTwice == InitTwice /\ [][NextTwice]_vars

---------------------------------------------------------------------------
(* Vocabulary of the properties.  The buffer of a behaviour describes one   *)
(* object kind K: its global count+offset pair and, per collision header,   *)
(* its local count+offset pair.                                             *)

K == fx.kind
S == get_size(K)

\* The decoded global list of K, and the list of K in decoded header h
G == stagedef.lists[K]
HL(h) == stagedef.collision_headers[h].lists[K]

DecodedHeaders == 1..Len(stagedef.collision_headers)

\* The local count+offset pair (m, Lo) the file stores in header h; it is
\* present when the buffer holds its eight bytes and neither value is 0.
Pair(h) == fx.locals[h]
PairPresent(h) ==
    /\ K \in LocalKinds
    /\ HeaderAddr(fx, h - 1) + CollisionHeaderDelta[ListField(K)] + 8 <= buflen
    /\ Pair(h).count # 0
    /\ Pair(h).off # 0

\* The location of the global list of K as the reader resolved it
GlobalCo == file_header[ListField(K)]

\* The alias test on the pair of header h: 0 <= diff < |G| x S
AliasPasses(h) ==
    /\ PairPresent(h)
    /\ GlobalCo.tag = "CountOffset"
    /\ Pair(h).off >= GlobalCo.off
    /\ Pair(h).off - GlobalCo.off < GlobalCo.count * S

AliasFails(h) == PairPresent(h) /\ ~AliasPasses(h)

\* diff / S for the pair of header h
StartIndex(h) == (Pair(h).off - GlobalCo.off) \div S

\* Position in G of the first entry whose global index is at least i
FirstAtLeast(i) == 1 + Cardinality({p \in 1..Len(G) : G[p].index < i})

\* The record a handle refers to
Deref(h, g) == IF g.object \in 1..Len(h) THEN h[g.object] ELSE <<>>

Decoded == pc = "done" /\ result.kind = "Ok"

\* The first field of every element of the fixture is its slot number + 2
SlotMarker(s) == s + 2

---------------------------------------------------------------------------
---------------------------------------------------------------------------
\* The records the global lists hold
GlobalObjects == {g.object : g \in GlobalHandles(stagedef)}

\* The slot of the element area an offset is the start of
SlotAligned(off) == (off - GOff) % S = 0
SlotOf(off) == (off - GOff) \div S

\* C2 as stated: when the alias test fails for a present local pair (m, Lo),
\* the header's list has exactly m elements and shares no record with a
\* global list.
C2_FallbackHasCountElements ==
    \A h \in DecodedHeaders :
        AliasFails(h)
        => /\ Len(HL(h)) = Pair(h).count
           /\ \A j \in 1..Len(HL(h)) : HL(h)[j].object \notin GlobalObjects

\* C2 amended: when the alias test fails for a present local pair (m, Lo),
\* the header's list is decoded from the bytes at Lo: it has at most m
\* elements, exactly m when no element fails to decode (the first one being
\* the record stored at Lo), and it shares no record with a global list.
C2_FallbackIsFresh ==
    \A h \in DecodedHeaders :
        AliasFails(h)
        => /\ Len(HL(h)) <= Pair(h).count
           /\ (fx.bad = {} /\ buflen = FullLen) => Len(HL(h)) = Pair(h).count
           /\ (fx.bad = {} /\ buflen = FullLen /\ ~edited /\ SlotAligned(Pair(h).off))
                => Deref(heap, HL(h)[1])[1] = SlotMarker(SlotOf(Pair(h).off))
           /\ \A j \in 1..Len(HL(h)) : HL(h)[j].object \notin GlobalObjects

\* A header whose two element local list starts before a present global
\* list and was decoded as two records of its own.
C2_Witness ==
    /\ Decoded
    /\ \E h \in DecodedHeaders :
          /\ AliasFails(h)
          /\ GlobalCo.tag = "CountOffset" /\ Pair(h).off < GlobalCo.off
          /\ Len(G) >= 1
          /\ Pair(h).count = 2 /\ Len(HL(h)) = 2
          /\ HL(h)[2].object \notin GlobalObjects

---------------------------------------------------------------------------
---------------------------------------------------------------------------
\* Every handle of the decoded StageDef
AllHandles == GlobalHandles(stagedef) \cup HeaderHandles(stagedef)

\* C4: a mutation made through any handle is visible through every handle
\* to the same record: in every state, also after a consumer's edit, each
\* handle of an aliasing header reads the value the global list's handle
\* reads, and an edit that was made is read by the handles of the StageDef.
C4_MutationVisible ==
    /\ \A h \in DecodedHeaders :
          AliasPasses(h)
          => \A j \in 1..Len(HL(h)) :
                Deref(heap, HL(h)[j]) = Deref(heap, G[FirstAtLeast(StartIndex(h)) + j - 1])
    /\ edited => \E g \in AllHandles : Deref(heap, g)[1] = -1

\* After an edit, two headers aliasing the same global entry and the
\* global list all read the edited value.
C4_Witness ==
    /\ edited
    /\ \E h1, h2 \in DecodedHeaders :
          /\ h1 # h2
          /\ AliasPasses(h1) /\ AliasPasses(h2)
          /\ Len(HL(h1)) >= 1 /\ Len(HL(h2)) >= 1
          /\ HL(h1)[1].object = HL(h2)[1].object
          /\ Deref(heap, HL(h1)[1])[1] = -1
          /\ Deref(heap, HL(h2)[1])[1] = -1
          /\ Deref(heap, G[FirstAtLeast(StartIndex(h1))])[1] = -1

---------------------------------------------------------------------------
\* C5: decoding a collision header leaves every global list unchanged: the
\* same handles in the same order with the same global indices, and the
\* same record values.
C5_GlobalListsUnchanged ==
    [][pc = "headers"
         => /\ stagedef'.lists = stagedef.lists
            /\ \A g \in GlobalHandles(stagedef) : Deref(heap', g) = Deref(heap, g)]_vars

\* A decoded header holds, under local index 0, the record the global list
\* still holds under global index 1.
C5_Witness ==
    /\ Decoded
    /\ \E h \in DecodedHeaders :
          /\ AliasPasses(h)
          /\ Len(HL(h)) >= 1 /\ Len(G) = 2
          /\ HL(h)[1].index = 0
          /\ G[2].index = 1
          /\ HL(h)[1].object = G[2].object

---------------------------------------------------------------------------
\* The first word the fixture stores in header i (counted from 0)
HeaderMarker(i) == 256 + i

\* C6: collision headers are decoded last and in array order: while headers
\* are decoded the global lists do not change, each step appends one header
\* at the end of collision_headers, the header at position i (from 0) holds
\* what is stored at base + i x 0x49C, and a successful decode holds all of
\* them.
C6_HeadersLastInOrder ==
    /\ [](\A i \in DecodedHeaders :
             stagedef.collision_headers[i].center_of_rotation_position[1]
                = HeaderMarker(i - 1))
    /\ [](Decoded => Len(stagedef.collision_headers) = HeaderCount(fx))
    /\ [][stagedef'.collision_headers # stagedef.collision_headers
            => /\ pc = "headers"
               /\ stagedef'.lists = stagedef.lists
               /\ Len(stagedef'.collision_headers) = Len(stagedef.collision_headers) + 1
               /\ SubSeq(stagedef'.collision_headers, 1, Len(stagedef.collision_headers))
                     = stagedef.collision_headers]_vars
    /\ [][pc = "headers" => stagedef'.lists = stagedef.lists]_vars

\* Two headers decoded, in array order, after a non-empty global list.
C6_Witness ==
    /\ Decoded
    /\ Len(stagedef.collision_headers) = 2
    /\ stagedef.collision_headers[1].center_of_rotation_position[1] = HeaderMarker(0)
    /\ stagedef.collision_headers[2].center_of_rotation_position[1] = HeaderMarker(1)
    /\ Len(G) >= 1

---------------------------------------------------------------------------
\* C7 as stated: a decode requested for SMB1 ends with an "unsupported
\* variant" error value.
C7_UnsupportedVariantIsError ==
    (game = "SMB1" /\ pc = "done") => result.kind = "Err"

---------------------------------------------------------------------------
\* The count+offset pair the file stores for the global list of K
GlobalAbsent == fx.gcount = 0 \/ fx.goff = 0
HeadersAbsent == fx.hcount = 0 \/ fx.hoff = 0
LocalAbsent(h) == Pair(h).count = 0 \/ Pair(h).off = 0

\* C8: a section whose count or offset is 0 yields an empty sequence, in
\* the file header and in a collision header alike, and is not an error:
\* the decode of a complete buffer succeeds with the singular fields and
\* all the collision headers of the file.
C8_AbsentIsEmpty ==
    /\ \A k \in Kinds : (k # K \/ GlobalAbsent) => stagedef.lists[k] = <<>>
    /\ HeadersAbsent => stagedef.collision_headers = <<>>
    /\ \A h \in DecodedHeaders :
          \A k \in LocalKinds :
             (k # K \/ LocalAbsent(h)) => stagedef.collision_headers[h].lists[k] = <<>>
    /\ (pc = "done" /\ game # "SMB1" /\ buflen = FullLen)
          => /\ result.kind = "Ok"
             /\ stagedef.magic_number_2 = 1148846080
             /\ stagedef.fallout_level = 1092616192
             /\ Len(stagedef.collision_headers) = HeaderCount(fx)

\* A successful decode of a file whose global pair has a count but no
\* offset: the global list is empty and a header's own list was decoded.
C8_Witness ==
    /\ Decoded
    /\ fx.gcount >= 1 /\ fx.goff = 0
    /\ G = <<>>
    /\ \E h \in DecodedHeaders : ~LocalAbsent(h) /\ Len(HL(h)) >= 1
    /\ \E h \in DecodedHeaders : LocalAbsent(h) /\ HL(h) = <<>>

---------------------------------------------------------------------------
\* The slot of the p-th element (from 1) that is left when slot b is omitted
RemainingSlot(p, b) == IF p - 1 < b THEN p - 1 ELSE p

\* C9 as stated: when a single element of a global list of n elements fails
\* to decode, the list holds the other n-1 elements, each equal to the
\* record stored at its own position.
C9_OnlyFailedElementOmitted ==
    (/\ pc \in {"headers", "done"}
     /\ ~edited
     /\ buflen = FullLen
     /\ ~GlobalAbsent
     /\ \E b \in 0..(fx.gcount - 1) : fx.bad = {b})
    => LET b == CHOOSE b \in fx.bad : TRUE
       IN /\ Len(G) = fx.gcount - 1
          /\ \A p \in 1..Len(G) :
                Deref(heap, G[p])[1] = SlotMarker(RemainingSlot(p, b))

---------------------------------------------------------------------------
\* Every list of the decoded StageDef
AllLists ==
    {stagedef.lists[k] : k \in Kinds}
    \cup UNION {{stagedef.collision_headers[h].lists[k] : k \in Kinds}
                  : h \in DecodedHeaders}

\* C10 as stated: in every list of the StageDef the entry at position k
\* (from 0) carries index k.
C10_ContiguousIndices ==
    \A l \in AllLists : \A k \in 1..Len(l) : l[k].index = k - 1

---------------------------------------------------------------------------
\* C11: the section reader, given a present location (n, offset) whose n
\* elements all decode, returns exactly n handles with the indices
\* 0 .. n-1, in the order of decoding, the first one being the record stored
\* at offset; this holds for a root list and for a header's own list.
C11_CountedListComplete ==
    /\ (/\ pc \in {"headers", "done"}
        /\ GlobalCo.tag = "CountOffset"
        /\ fx.bad = {} /\ buflen = FullLen)
       => /\ Len(G) = GlobalCo.count
          /\ \A p \in 1..Len(G) : G[p].index = p - 1
          /\ \A p \in 1..(Len(G) - 1) : G[p].object < G[p + 1].object
          /\ ~edited => Deref(heap, G[1])[1] = SlotMarker(0)
    /\ \A h \in DecodedHeaders :
          (AliasFails(h) /\ fx.bad = {} /\ buflen = FullLen)
          => /\ Len(HL(h)) = Pair(h).count
             /\ \A p \in 1..Len(HL(h)) : HL(h)[p].index = p - 1
             /\ \A p \in 1..(Len(HL(h)) - 1) : HL(h)[p].object < HL(h)[p + 1].object

\* A root list of two elements read from a pair with count 2, and a header
\* list of two elements decoded on its own.
C11_Witness ==
    /\ Decoded
    /\ GlobalCo.tag = "CountOffset" /\ GlobalCo.count = 2
    /\ Len(G) = 2 /\ G[2].index = 1
    /\ \E h \in DecodedHeaders :
          AliasFails(h) /\ Len(HL(h)) = 2 /\ HL(h)[2].index = 1

---------------------------------------------------------------------------
\* The file header was resolved: every location field was read
HeaderResolved == file_header # DefaultFileHeader

\* C12 as stated: once the file header is resolved, a short read in a
\* singular field (a magic number, the start position, the fallout level, a
\* collision header's center of rotation) leaves that field at its default
\* and the decode still ends successfully with all collision headers.
C12_SingularFailureIsLocal ==
    (pc = "done" /\ HeaderResolved)
    => /\ result.kind = "Ok"
       /\ Len(stagedef.collision_headers) = HeaderCount(fx)

---------------------------------------------------------------------------
\* The first address after the last location field of the file header
FileHeaderEnd == SMB2_FILE_HEADER_FORMAT.mystery_3_ptr_offset + 4

\* C13: when the buffer ends before the last location field of the file
\* header, the decode ends at once with an error value: no later step runs,
\* no field of a StageDef is filled and no record is created.
C13_UnreadableHeaderFails ==
    (game # "SMB1" /\ buflen < FileHeaderEnd /\ pc # "start")
    => /\ pc = "done"
       /\ result.kind = "Err"
       /\ ~HeaderResolved
       /\ stagedef = DefaultStageDef
       /\ heap = <<>>

\* A decode of a buffer one byte short of the file header has ended.
C13_Witness ==
    /\ game = "SMB2"
    /\ buflen = FileHeaderEnd - 1
    /\ pc = "done"
    /\ result = [kind |-> "Err", err |-> "eof"]

---------------------------------------------------------------------------
\* C14 as stated: for every object kind, a non-zero count+offset pair at the
\* kind's file-header field is resolved by the reader (it is the global pair
\* of the alias test) and yields a root list read from that location.
C14_EveryKindIsRead ==
    (/\ pc \in {"headers", "done"}
     /\ HeaderResolved
     /\ ~GlobalAbsent
     /\ fx.bad = {} /\ buflen = FullLen)
    => /\ GlobalCo = CountOffset(fx.gcount, fx.goff)
       /\ Len(G) = fx.gcount

---------------------------------------------------------------------------
\* C16: on a successful decode the magic numbers are the words stored at 0x0
\* and 0x4, the start position is the vector stored at the address the
\* header field at 0x10 holds, and the fallout level is the word stored at
\* the address the header field at 0x14 holds.
C16_SingularFieldsThroughOffsets ==
    Decoded
    => /\ file_header.start_position_ptr_offset = OffsetOnly(START_POS_ADDR)
       /\ file_header.fallout_position_ptr_offset = OffsetOnly(FALLOUT_POS_ADDR)
       /\ stagedef.magic_number_1 = 0
       /\ stagedef.magic_number_2 = 1148846080
       /\ stagedef.start_position = <<0, 1076887552, 1096810496>>
       /\ stagedef.fallout_level = 1092616192

\* A successful little-endian decode holding the four values of the file.
C16_Witness ==
    /\ Decoded
    /\ order = "LE"
    /\ stagedef.magic_number_2 = 1148846080
    /\ stagedef.start_position[3] = 1096810496
    /\ stagedef.fallout_level = 1092616192

---------------------------------------------------------------------------
\* C17 as stated: on a successful decode the start rotation of the StageDef
\* is the vector of three 16-bit values the file stores directly after the
\* start position.
C17_StartRotationDecoded ==
    Decoded => stagedef.start_rotation = fx.rot

---------------------------------------------------------------------------
\* C20 as stated: for every kind with a decode routine, decoding an element
\* advances the cursor by the declared size S of the kind: after a root list
\* of n elements at off is read the cursor is at off + n x S, and element i
\* is the record stored at off + i x S.
C20_ElementStride ==
    (/\ pc \in {"headers", "done"}
     /\ HeaderResolved
     /\ K # "Banana"
     /\ GlobalCo.tag = "CountOffset"
     /\ fx.bad = {} /\ buflen = FullLen /\ ~edited)
    => /\ (pc = "headers" /\ stagedef.collision_headers = <<>>)
             => pos = GlobalCo.off + GlobalCo.count * S
       /\ \A p \in 1..Len(G) : Deref(heap, G[p])[1] = SlotMarker(p - 1)

---------------------------------------------------------------------------
\* C19 as stated: when the decode of the selected file fails,
\* poll_pending_file returns having added no instance to stagedef_viewers,
\* cleared pending_file_to_load and left Loading for the non-loading state
\* of the current number of viewers.
C19_FailedLoadKeepsNoPartialState ==
    (pc = "done" /\ result.kind # "Ok" /\ app_pc # "StageDefInstance::new")
    => /\ app_pc = "idle"
       /\ stagedef_viewers = <<>>
       /\ pending_file_to_load = "None"
       /\ state = get_non_loading_state(stagedef_viewers)

---------------------------------------------------------------------------
(* Properties of two decodes *)

\* What a consumer reads from the lists of a StageDef or of a collision
\* header: per entry its index, the record behind its handle, and the
\* entries of the global list that refer to the same record
ViewLists(h, lists, globals) ==
    [k \in Kinds |->
        [p \in 1..Len(lists[k]) |->
            [index |-> lists[k][p].index,
             value |-> Deref(h, lists[k][p]),
             global |-> {q \in 1..Len(globals[k]) :
                            globals[k][q].object = lists[k][p].object}]]]

\* What a consumer reads from a StageDef, handles resolved
View(h, sd) ==
    [magic_number_1 |-> sd.magic_number_1,
     magic_number_2 |-> sd.magic_number_2,
     start_position |-> sd.start_position,
     start_rotation |-> sd.start_rotation,
     fallout_level |-> sd.fallout_level,
     lists |-> ViewLists(h, sd.lists, sd.lists),
     collision_headers |->
        [i \in 1..Len(sd.collision_headers) |->
            [center_of_rotation_position |->
                 sd.collision_headers[i].center_of_rotation_position,
             conveyor_vector |-> sd.collision_headers[i].conveyor_vector,
             lists |-> ViewLists(h, sd.collision_headers[i].lists, sd.lists)]]]

\* The records a StageDef refers to
Objects(sd) == {g.object : g \in GlobalHandles(sd) \cup HeaderHandles(sd)}

TwoDecodes == pc = "done" /\ Len(earlier) = 1

\* C15 as stated: decoding the big-endian encoding of a set of logical
\* values as big-endian and decoding their little-endian encoding as
\* little-endian give the same outcome and StageDefs with the same field
\* values, list lengths and element values.
C15_ByteOrderIsAParameter ==
    (/\ TwoDecodes /\ earlier[1].order # order
     /\ buflen = FullLen /\ fx.bad = {} /\ ~edited)
    => /\ result = earlier[1].result
       /\ View(heap, stagedef) = View(heap, earlier[1].stagedef)

C18_FailureWitness ==
    TwoDecodes /\ earlier[1].order = order /\ result.kind = "Err" /\ buflen = 100

---------------------------------------------------------------------------
\* The first word the fixture stores in the conveyor vector of header i
ConveyorMarker(i) == 512 + i

\* C21 as stated: the singular fields of the collision header at address H
\* are read at H + delta: center_of_rotation_position is the vector stored
\* at H + 0x0 and conveyor_vector is the vector stored at H + 0x18.
C21_HeaderSingularFields ==
    (Decoded /\ buflen = FullLen)
    => \A h \in DecodedHeaders :
          /\ stagedef.collision_headers[h].center_of_rotation_position
                = <<HeaderMarker(h - 1), 0, 0>>
          /\ stagedef.collision_headers[h].conveyor_vector
                = <<ConveyorMarker(h - 1), 0, 0>>

---------------------------------------------------------------------------
\* The byte distance of the pair of header h is inside the global list but
\* no multiple of the element size
Misaligned(h) == AliasPasses(h) /\ (Pair(h).off - GlobalCo.off) % S # 0

\* C22: when 0 <= diff < |G| x S and diff is no multiple of S, the decode
\* raises no error and truncates: the header's list is the aliased slice
\* that starts at global index floor(diff / S); no record is decoded from
\* the misaligned address.
C22_MisalignedTruncates ==
    \A h \in DecodedHeaders :
        Misaligned(h)
        => LET p0 == FirstAtLeast(StartIndex(h))
           IN /\ (pc = "done" /\ buflen = FullLen) => result.kind = "Ok"
              /\ Len(HL(h)) = Min(Pair(h).count, Len(G) - p0 + 1)
              /\ \A j \in 1..Len(HL(h)) :
                    /\ HL(h)[j].object = G[p0 + j - 1].object
                    /\ G[p0 + j - 1].index >= StartIndex(h)
                    /\ HL(h)[j].index = j - 1

C22_Witness ==
    /\ Decoded
    /\ \E h \in DecodedHeaders :
          /\ Misaligned(h)
          /\ StartIndex(h) = 1
          /\ Len(G) = 2 /\ Len(HL(h)) = 1
          /\ HL(h)[1].object = G[2].object

---------------------------------------------------------------------------
\* The string read_model_name_from_offset returns for the name of slot s:
\* its characters and the terminating zero
ModelName(s) == [i \in 1..(NameLen(s) + 1) |-> IF i <= NameLen(s) THEN NameChar(s) ELSE 0]

\* C23: a successful indirect-name read restores the cursor to 4 bytes past
\* its position before the call, wherever the name is stored and however
\* long it is: every background model carries its name, the unk_0x8 field
\* that follows the name reference is read from its own position, and a
\* list of n background models at off leaves the cursor at off + n x S.
C23_NameReadRestoresCursor ==
    (/\ K = "BackgroundModel"
     /\ pc \in {"headers", "done"}
     /\ GlobalCo.tag = "CountOffset"
     /\ buflen = FullLen /\ ~edited)
    => /\ Len(G) = GlobalCo.count
       /\ \A p \in 1..Len(G) :
             Deref(heap, G[p])
                = <<SlotMarker(p - 1), ModelName(p - 1), Unk0x8(p - 1),
                    0, 0, 0, 0, 0, 0, 0, 0, 0, 0>>
       /\ (pc = "headers" /\ stagedef.collision_headers = <<>>)
             => pos = GlobalCo.off + GlobalCo.count * S

C23_Witness ==
    /\ K = "BackgroundModel"
    /\ pc = "headers" /\ stagedef.collision_headers = <<>>
    /\ Len(G) = 2
    /\ Deref(heap, G[1])[2] = <<66, 0>>
    /\ Deref(heap, G[2])[2] = <<67, 67, 0>>
    /\ Deref(heap, G[2])[3] = Unk0x8(1)
    /\ pos = GOff + 2 * BACKGROUND_MODEL_SIZE

---------------------------------------------------------------------------
\* The goal the fixture stores in slot s
StoredGoal(s) ==
    <<SlotMarker(s), 0, 1113980928, 0, 0, 0,
      CASE (s + 1) % 3 = 0 -> "Blue" [] (s + 1) % 3 = 1 -> "Green" [] OTHER -> "Red">>

\* C24: a goal is decoded from 20 bytes as position, rotation, one type byte
\* and one padding byte; the type bytes 0, 1 and 2 decode to Blue, Green
\* and Red, and an element with any other type byte is not decoded at all
\* (no goal with a default type stands in for it).
C24_GoalDecode ==
    (/\ K = "Goal"
     /\ pc \in {"headers", "done"}
     /\ GlobalCo.tag = "CountOffset"
     /\ buflen = FullLen /\ ~edited)
    => /\ \A p \in 1..Len(G) :
             /\ G[p].index \notin fx.bad
             /\ (\A b \in fx.bad : G[p].index < b)
                   => Deref(heap, G[p]) = StoredGoal(G[p].index)
       /\ \A s \in 0..(GlobalCo.count - 1) :
             (\A b \in fx.bad : s < b) => \E p \in 1..Len(G) : G[p].index = s
       /\ (fx.bad = {} /\ pc = "headers" /\ stagedef.collision_headers = <<>>)
             => pos = GlobalCo.off + GlobalCo.count * GOAL_SIZE

\* Two goals stored, the second with type byte 127: the first is decoded as
\* a green goal, the second is not in the list.
C24_Witness ==
    /\ K = "Goal" /\ Decoded /\ ~edited
    /\ GlobalCo.tag = "CountOffset" /\ GlobalCo.count = 2
    /\ fx.bad = {1}
    /\ Len(G) = 1
    /\ Deref(heap, G[1])[7] = "Green"

---------------------------------------------------------------------------
\* C25 as stated: after any sequence of open-dialog, poll and close-window
\* operations, whenever no load is pending the state is StagedefLoaded
\* exactly when the viewer list is not empty and NoStagedefLoaded exactly
\* when it is empty.
C25_StateReflectsViewers ==
    (app_pc = "idle" /\ pending_file_to_load = "None")
    => /\ state = "StagedefLoaded" <=> Len(stagedef_viewers) > 0
       /\ state = "NoStagedefLoaded" <=> Len(stagedef_viewers) = 0

---------------------------------------------------------------------------
\* C26 as stated: whenever a frame has ended, state = Loading implies that
\* a pending load promise is stored: a promise that has not completed is
\* put back by the poll, and a promise that has completed is consumed by
\* the next poll, which clears the pending load and leaves Loading.
C26_LoadingHasPromise ==
    (app_pc # "StageDefInstance::new" /\ state = "Loading")
    => pending_file_to_load # "None"

---------------------------------------------------------------------------
\* The records the list of K of header h refers to
HeaderObjects(h) == {g.object : g \in Range(HL(h))}

\* C27: records decoded on the fallback path belong to one collision header:
\* two headers with the same private local pair each get their own freshly
\* decoded records, equal in value as long as nobody edits them, and an edit
\* made through a handle of one header is not visible through the handles
\* of the other.
C27_FallbackRecordsArePrivate ==
    \A h1, h2 \in DecodedHeaders :
        (h1 # h2 /\ AliasFails(h1) /\ AliasFails(h2) /\ Pair(h1) = Pair(h2))
        => /\ HeaderObjects(h1) \cap HeaderObjects(h2) = {}
           /\ Len(HL(h1)) = Len(HL(h2))
           /\ Len(HL(h1)) = Cardinality(HeaderObjects(h1))
           /\ \A j \in 1..Len(HL(h1)) :
                 /\ ~edited => Deref(heap, HL(h1)[j]) = Deref(heap, HL(h2)[j])
                 /\ Deref(heap, HL(h1)[j])[1] = -1 => Deref(heap, HL(h2)[j])[1] # -1

\* Two headers with the same private pair of two elements, after a consumer
\* has edited a record of the first
C27_Witness ==
    /\ Decoded /\ edited
    /\ Len(stagedef.collision_headers) = 2
    /\ AliasFails(1) /\ AliasFails(2) /\ Pair(1) = Pair(2)
    /\ Len(HL(1)) = 2 /\ Len(HL(2)) = 2
    /\ Deref(heap, HL(1)[1])[1] = -1

---------------------------------------------------------------------------
\* C28 as stated: every handle of an aliased header list refers to a global
\* record whose global index lies in diff/S .. diff/S + m - 1, the range the
\* local pair describes, also when elements of the global list were skipped.
C28_AliasWithinRange ==
    \A h \in DecodedHeaders :
        AliasPasses(h)
        => \A j \in 1..Len(HL(h)) :
              \E p \in 1..Len(G) :
                 /\ G[p].object = HL(h)[j].object
                 /\ G[p].index \in StartIndex(h)..(StartIndex(h) + Pair(h).count - 1)

---------------------------------------------------------------------------
\* C29 as stated: for every 32-bit count read from the file the address
\* arithmetic is exact: the product |G| x S does not overflow or wrap, so a
\* local pair whose distance diff satisfies 0 <= diff < |G| x S in the
\* integers (diff / S below the stored count) passes the alias test and the
\* header refers to global records, and no decode stops on an overflow.
C29_AliasBoundExact ==
    /\ result.kind # "Panic"
    /\ \A h \in DecodedHeaders :
          (/\ PairPresent(h)
           /\ GlobalCo.tag = "CountOffset"
           /\ Pair(h).off >= GlobalCo.off
           /\ (Pair(h).off - GlobalCo.off) \div S < GlobalCo.count)
          => /\ HL(h) # <<>>
             /\ {g.object : g \in Range(HL(h))} \subseteq {g.object : g \in Range(G)}

---------------------------------------------------------------------------
\* C30: a stored 0 makes a count+offset pair absent but not a single pointer.
\* On a successful decode of a buffer whose start-position pointer is 0 the
\* resolved location is OffsetOnly(0) and the start position is the three
\* words at file offsets 0, 4 and 8 (magic number 1, magic number 2, the
\* collision header count); with a fallout pointer of 0 the resolved location
\* is OffsetOnly(0) and the fallout level is the word at offset 0; the
\* bumper pair, stored as (0, 0), is Unused.
C30_ZeroPointerIsPresent ==
    Decoded
    => /\ file_header.bumper_list_offset = Unused
       /\ fx.start_ptr = 0
            => /\ file_header.start_position_ptr_offset = OffsetOnly(0)
               /\ stagedef.start_position = <<fx.magic1, 1148846080, fx.hcount>>
       /\ fx.fallout_ptr = 0
            => /\ file_header.fallout_position_ptr_offset = OffsetOnly(0)
               /\ stagedef.fallout_level = fx.magic1

\* A successful decode of a buffer with both pointers 0: the start position
\* and the fallout level both hold the first word of the file.
C30_Witness ==
    /\ Decoded
    /\ fx.start_ptr = 0 /\ fx.fallout_ptr = 0
    /\ stagedef.start_position[1] = 1065353216
    /\ stagedef.fallout_level = 1065353216
    /\ stagedef.magic_number_1 = 1065353216

====
